---- MODULE Spec2Model ----
(***************************************************************************)
(* AutoSub: the Session Controller (src/App.tsx), the Request Builder and  *)
(* Normalizer (generateSubtitles, src/services/geminiService.ts:1-126) and  *)
(* Audio Capture (AudioInput, src/services/geminiService.ts:127-299).       *)
(*                                                                         *)
(* The browser runs one task at a time.  Every action below is one task:   *)
(* a click handler, a FileReader event, the settlement of a promise, a     *)
(* MediaRecorder event or a timer tick, together with the microtasks and   *)
(* the React re-render that follow it.  Buttons exist only while the JSX   *)
(* that renders them is shown, so the guards of the user actions are the   *)
(* render conditions of the source.                                        *)
(***************************************************************************)
EXTENDS Integers, Sequences, FiniteSets, TLC

\* ------------------------------------------------------------------ bounds
MaxOps == 4   \* files picked + recordings started + generations asked for, per run

\* ------------------------------------------------------------- characters
Digits     == {"0", "1", "2", "3", "4", "5", "6", "7", "8", "9"}
Whitespace == {" ", "\n", "\t", "\r"}
\* the backquote character, U+0060 (written out: the lexer reserves it)
Backquote  == "BACKQUOTE"
Fence      == <<Backquote, Backquote, Backquote>>

\* text[i..j] as a sequence (empty when j < i)
Slice(text, i, j) == [k \in 1..(j - i + 1) |-> text[i + k - 1]]

\* does pat occur in text at position i
OccursAt(text, pat, i) ==
  /\ i >= 1
  /\ i + Len(pat) - 1 <= Len(text)
  /\ \A k \in 1..Len(pat) : text[i + k - 1] = pat[k]

\* String.prototype.includes
Includes(text, pat) == \E i \in 1..(Len(text) + 1) : OccursAt(text, pat, i)

\* ------------------------------------------------------------ TranslationMode
TRANSCRIPT_ONLY == "TRANSCRIPT_ONLY"
TO_ENGLISH      == "TO_ENGLISH"
TO_CHINESE      == "TO_CHINESE"
BILINGUAL_CN_EN == "BILINGUAL_CN_EN"
TranslationMode == {TRANSCRIPT_ONLY, TO_ENGLISH, TO_CHINESE, BILINGUAL_CN_EN}

\* --------------------------------------------------------------- messages
\* A message is a sequence of words; a marker is one word of it.
\* the values undefined and null, kept apart from every message
Undefined        == <<"undefined">>
Null             == <<"null">>
MarkApiKey       == <<"API key">>
MarkSafety       == <<"SAFETY">>
Mark429          == <<"429">>
MsgNoApiKey      == <<"no API Key detected", "check your configuration">>
MsgEmptyResponse == <<"Gemini", "returned no content">>
MsgApiKeyInvalid == <<"API Key", "invalid or not configured">>
MsgSafety        == <<"blocked by safety policy">>
MsgQuota         == <<"too many requests", "Quota Exceeded">>
MsgTypeError     == <<"Cannot read properties of undefined", "reading 'includes'">>
MsgFallback      == <<"unknown error", "please retry">>

\* ------------------------------------------------- response normalisation
SetMin(S) == CHOOSE x \in S : \A y \in S : x <= y
SetMax(S) == CHOOSE x \in S : \A y \in S : x >= y

\* (FENCE stands for three backquotes in the regular expressions quoted below)
\* /FENCEsrt/gi matches at position i
FenceSrtAt(text, i) ==
  /\ OccursAt(text, Fence, i)
  /\ i + 5 <= Len(text)
  /\ text[i + 3] \in {"s", "S"}
  /\ text[i + 4] \in {"r", "R"}
  /\ text[i + 5] \in {"t", "T"}

\* text.replace(/FENCEsrt/gi, ''): matches are taken left to right and removed
RECURSIVE StripFenceSrtFrom(_, _)
StripFenceSrtFrom(text, i) ==
  IF i > Len(text) THEN <<>>
  ELSE IF FenceSrtAt(text, i) THEN StripFenceSrtFrom(text, i + 6)
  ELSE <<text[i]>> \o StripFenceSrtFrom(text, i + 1)

\* text.replace(/FENCE/g, '')
RECURSIVE StripFenceFrom(_, _)
StripFenceFrom(text, i) ==
  IF i > Len(text) THEN <<>>
  ELSE IF OccursAt(text, Fence, i) THEN StripFenceFrom(text, i + 3)
  ELSE <<text[i]>> \o StripFenceFrom(text, i + 1)

\* String.prototype.trim
Trim(text) ==
  LET keep == {i \in 1..Len(text) : text[i] \notin Whitespace}
  IN  IF keep = {} THEN <<>> ELSE Slice(text, SetMin(keep), SetMax(keep))

\* a strip that removes the tagged fences and leaves the bare ones
StripFences_TagOnly(text) == StripFenceSrtFrom(text, 1)

\* text.replace(/FENCEsrt/gi, '').replace(/FENCE/g, '')
StripFences(text) == StripFenceFrom(StripFenceSrtFrom(text, 1), 1)

\* text.replace(/FENCEsrt/gi, '').replace(/FENCE/g, '').trim()
CleanText(text) == Trim(StripFences(text))

\* /^\d+/.test(text)
StartsWithDigit(text) == Len(text) >= 1 /\ text[1] \in Digits

\* \d{2}:\d{2}:\d{2} at position k
TimestampAt(text, k) ==
  /\ k >= 1
  /\ k + 7 <= Len(text)
  /\ \A d \in {0, 1, 3, 4, 6, 7} : text[k + d] \in Digits
  /\ \A d \in {2, 5} : text[k + d] = ":"

\* /\d+\s*\n\d{2}:\d{2}:\d{2}/ matches at position i
AnchorAt(text, i) ==
  \E j \in (i + 1)..Len(text) : \E k \in j..Len(text) :
    /\ \A d \in i..(j - 1) : text[d] \in Digits
    /\ \A w \in j..(k - 1) : text[w] \in Whitespace
    /\ text[k] = "\n"
    /\ TimestampAt(text, k + 1)

\* the index of the last match instead of the first
MatchIndex_Last(text) ==
  LET hits == {i \in 1..Len(text) : AnchorAt(text, i)}
  IN  IF hits = {} THEN 0 ELSE SetMax(hits)

\* match.index of text.match(/\d+\s*\n\d{2}:\d{2}:\d{2}/), 1-based; 0 is no match
MatchIndex(text) ==
  LET hits == {i \in 1..Len(text) : AnchorAt(text, i)}
  IN  IF hits = {} THEN 0 ELSE SetMin(hits)

\* a repair that looks for the anchor without testing the first character
Repair_Always(cleanText) ==
  IF MatchIndex(cleanText) # 0
  THEN Slice(cleanText, MatchIndex(cleanText), Len(cleanText))
  ELSE cleanText

\* the repair of lines 99-106
Repair(cleanText) ==
  IF StartsWithDigit(cleanText) THEN cleanText
  ELSE IF MatchIndex(cleanText) # 0
       THEN Slice(cleanText, MatchIndex(cleanText), Len(cleanText))
       ELSE cleanText

\* ----------------------------------------------------- generateSubtitles
\* A settled promise: [ok |-> TRUE, value |-> v] or [ok |-> FALSE, error |-> e];
\* an error is [message |-> m], m a message or Undefined.
Resolved(v) == [ok |-> TRUE, value |-> v]
Rejected(m) == [ok |-> FALSE, error |-> [message |-> m]]

\* the catch block, lines 110-125: what it throws for the error it caught
CatchBlock(error) ==
  IF error.message = Undefined THEN Rejected(MsgTypeError)
  ELSE IF Includes(error.message, MarkApiKey) THEN Rejected(MsgApiKeyInvalid)
  ELSE IF Includes(error.message, MarkSafety) THEN Rejected(MsgSafety)
  ELSE IF Includes(error.message, Mark429)    THEN Rejected(MsgQuota)
  ELSE Rejected(error.message)

\* a validation that tests text === undefined instead of !text
ValidateText_OnlyAbsent(text) ==
  IF text = Undefined THEN Rejected(MsgEmptyResponse) ELSE Resolved(text)

\* lines 92-93: if (!text) throw
ValidateText(text) ==
  IF text = Undefined \/ text = <<>> THEN Rejected(MsgEmptyResponse)
  ELSE Resolved(text)

\* the try block after the await, lines 92-108, and the catch around it:
\* response is how ai.models.generateContent settled (value: response.text)
AfterGenerateContent(response) ==
  IF ~response.ok THEN CatchBlock(response.error)
  ELSE IF ~ValidateText(response.value).ok
       THEN CatchBlock(ValidateText(response.value).error)
       ELSE Resolved(Repair(CleanText(response.value)))

\* lines 41-49: the task header and the six requirements every mode shares
commonRequirements ==
  <<"task",
    "1 listen to the audio",
    "2 produce SubRip subtitles",
    "3 exact time axis HH:MM:SS,mmm",
    "4 no markdown fences",
    "5 no chatter around the subtitles",
    "6 break lines at pauses">>

\* lines 70-75: the worked example of the bilingual layout
WorkedExample ==
  <<"example", "1", "00:00:01,000 --> 00:00:04,000", "Chinese line", "English line">>

\* the first line of specificInstruction for each mode, lines 55, 58, 61, 64
ModeClause(mode) ==
  CASE mode = TRANSCRIPT_ONLY -> "7 transcribe verbatim, do not translate"
    [] mode = TO_ENGLISH      -> "7 translate into English"
    [] mode = TO_CHINESE      -> "7 translate into simplified Chinese"
    [] mode = BILINGUAL_CN_EN -> "7 give bilingual subtitles"

\* a switch that gives every mode the worked example
specificInstruction_ExampleAlways(mode) ==
  <<ModeClause(mode)>> \o WorkedExample

\* lines 51-76: the switch on mode
specificInstruction(mode) ==
  IF mode = BILINGUAL_CN_EN
  THEN <<ModeClause(mode), "format", "first line Chinese", "second line English">>
         \o WorkedExample
  ELSE IF mode \in TranslationMode THEN <<ModeClause(mode)>>
  ELSE <<>>

\* line 78
promptText(mode) == commonRequirements \o <<"\n">> \o specificInstruction(mode)

\* the modes the user picks in the state machine
ModesTried    == {BILINGUAL_CN_EN, TO_ENGLISH}
\* what the external model may answer in the state machine
ModelTexts    == {<<>>, Fence, Fence \o <<"s", "r", "t", "\n", "1">>}
ModelFailures == {Undefined, <<"fetch failed">>, <<"got", "429">>}
ModelResponses ==
  {Resolved(t) : t \in ModelTexts \cup {Undefined}} \cup {Rejected(m) : m \in ModelFailures}

\* ------------------------------------------------------------------ state
\* Objects are numbered.  A new object takes the least number no live object
\* has, so that two runs differing only in the numbers of dead objects meet
\* in one state.  recordingTime (AudioInput:139) is written by startRecording
\* and by the interval callback and read by the display alone; it is left out.
VARIABLES
  GEMINI_API_KEY,    \* geminiService.ts:4, "" when process.env.API_KEY is unset
  audioState,        \* App.tsx:9   [file, url, name]; file 0 is null, url 0 is null
  srtContent,        \* App.tsx:15  [text, file]; file: the source the text was generated from
  processingState,   \* App.tsx:16  [isProcessing, progress, error]
  selectedMode,      \* App.tsx:22
  inflight,          \* the generateSubtitles calls that have not settled
  objectURLs,        \* URLs made by URL.createObjectURL and not revoked
  failed,            \* the arguments of the call whose failure set processingState.error
  isRecording,       \* AudioInput:138
  mediaRecorderRef,  \* AudioInput:140, 0 is null
  chunksRef,         \* AudioInput:141
  timerIntervalRef,  \* AudioInput:143, 0 is null
  intervals,         \* intervals set by window.setInterval and not cleared
  pendingMedia,      \* startRecording calls awaiting getUserMedia
  streams,           \* microphone streams acquired whose tracks are not stopped
  recorders,         \* MediaRecorder of each startRecording call: "none" (not constructed,
                     \* or inactive and unreferenced), "recording", "stopping" (stop()
                     \* called, its events queued), "inactive"
  alerted,           \* the catch of startRecording has called alert()
  input,             \* pieces of the response (or of the error message) that the
                     \* outstanding generateContent call is about to settle with
  ops                \* files picked + recordings started + generations asked for so far

ctlVars == <<GEMINI_API_KEY, audioState, srtContent, processingState, selectedMode,
             inflight, objectURLs, failed, input>>
recVars == <<isRecording, mediaRecorderRef, chunksRef, timerIntervalRef, intervals,
             pendingMedia, streams, recorders, alerted>>
vars    == <<ctlVars, recVars, ops>>

NoAudio == [file |-> 0, url |-> 0, name |-> ""]
NoSrt   == [text |-> <<>>, file |-> 0]
NotProcessing == [isProcessing |-> FALSE, progress |-> "", error |-> Null]
NoCall  == [file |-> 0, mode |-> "none"]

Init ==
  /\ GEMINI_API_KEY \in {"", "key"}
  /\ audioState = NoAudio
  /\ srtContent = NoSrt
  /\ processingState = NotProcessing
  /\ selectedMode = BILINGUAL_CN_EN
  /\ inflight = {}
  /\ objectURLs = {}
  /\ failed = NoCall
  /\ isRecording = FALSE
  /\ mediaRecorderRef = 0
  /\ chunksRef = <<>>
  /\ timerIntervalRef = 0
  /\ intervals = {}
  /\ alerted = FALSE
  /\ input = <<>>
  /\ pendingMedia = {}
  /\ streams = {}
  /\ recorders = [c \in 1..MaxOps |-> "none"]
  /\ ops = 0

\* ------------------------------------------------------------ fresh objects
Range(seq) == {seq[i] : i \in 1..Len(seq)}

\* the File/Blob objects something still refers to
LiveFiles ==
  {audioState.file, srtContent.file, failed.file} \cup {call.file : call \in inflight}
    \cup objectURLs
NewFile  == SetMin((1..MaxOps) \ LiveFiles)

NewCall  == SetMin((1..MaxOps) \ {call.id : call \in inflight})

\* the startRecording calls whose stream, recorder, interval or chunk is still there
LiveStarts ==
  pendingMedia \cup streams \cup intervals \cup {mediaRecorderRef, timerIntervalRef}
    \cup {c \in 1..MaxOps : recorders[c] # "none"} \cup Range(chunksRef)
NewStart == SetMin((1..MaxOps) \ LiveStarts)

\* ------------------------------------------------------- what is rendered
\* AudioInput:209, the selected-file card (with the remove button) is shown
FileCardShown    == audioState.name # ""
\* AudioInput:237, the recording panel (with the stop button) is shown
RecordingShown   == ~FileCardShown /\ isRecording
\* AudioInput:251, the upload panel (file input and record button) is shown
UploadShown      == ~FileCardShown /\ ~isRecording
\* App.tsx:118, the controls section (mode selector and generate button) is shown
ControlsShown    ==
  audioState.file # 0 /\ ~processingState.isProcessing /\ srtContent.text = <<>>
\* App.tsx:166, the error card (with the retry button) is shown
ErrorShown       == processingState.error # Null
\* App.tsx:185, the result area (with the clear-result button) is shown
ResultShown      == srtContent.text # <<>>

\* ------------------------------------------------------ Session Controller
\* App.tsx:24-29
handleAudioSelected(name) ==
  /\ objectURLs' = objectURLs \cup {NewFile}
  /\ audioState' = [file |-> NewFile, url |-> NewFile, name |-> name]
  /\ srtContent' = NoSrt
  /\ processingState' = NotProcessing
  /\ failed' = NoCall

\* AudioInput:145-150, the user picks a file in the file input
handleFileChange ==
  /\ UploadShown
  /\ ops < MaxOps
  /\ ops' = ops + 1
  /\ handleAudioSelected("upload")
  /\ UNCHANGED <<GEMINI_API_KEY, input, selectedMode, inflight, recVars>>

\* App.tsx:31-36, the remove button of the selected-file card
clearAudio ==
  /\ FileCardShown
  /\ objectURLs' = IF audioState.url # 0 THEN objectURLs \ {audioState.url} ELSE objectURLs
  /\ audioState' = NoAudio
  /\ srtContent' = NoSrt
  /\ processingState' = NotProcessing
  /\ failed' = NoCall
  /\ UNCHANGED <<GEMINI_API_KEY, input, selectedMode, inflight, recVars, ops>>

\* App.tsx:129, the mode selector
setSelectedMode(mode) ==
  /\ ControlsShown
  /\ mode # selectedMode
  /\ selectedMode' = mode
  /\ UNCHANGED <<GEMINI_API_KEY, input, audioState, srtContent, processingState, inflight,
                 objectURLs, failed, recVars, ops>>

\* App.tsx:195 and 229, the clear-result buttons
clearResult ==
  /\ ResultShown
  /\ srtContent' = NoSrt
  /\ UNCHANGED <<GEMINI_API_KEY, input, audioState, processingState, selectedMode, inflight,
                 objectURLs, failed, recVars, ops>>

\* a precondition check that never throws
MissingCredential_Never(apiKey) == FALSE

\* geminiService.ts:30-32, the precondition check throws
MissingCredential(apiKey) == apiKey = ""

\* App.tsx:59, err.message || fallback
ErrorText(err) ==
  IF err.message = Undefined \/ err.message = <<>> THEN MsgFallback ELSE err.message

\* App.tsx:38-62 up to the first await that yields to the event loop, with
\* geminiService.ts:26-35.  Without a credential generateSubtitles rejects at
\* once and the catch of handleProcess runs in the same task; with one, the
\* call is left waiting for the FileReader of fileToGenerativePart.
handleProcess ==
  /\ ControlsShown \/ ErrorShown
  /\ ops < MaxOps
  /\ IF audioState.file = 0
     THEN UNCHANGED <<processingState, inflight, failed, ops>>
     ELSE /\ ops' = ops + 1
          /\ IF MissingCredential(GEMINI_API_KEY)
             THEN /\ processingState' =
                       [isProcessing |-> FALSE, progress |-> "",
                        error |-> ErrorText([message |-> MsgNoApiKey])]
                  /\ failed' = [file |-> audioState.file, mode |-> selectedMode]
                  /\ UNCHANGED inflight
             ELSE /\ processingState' =
                       [isProcessing |-> TRUE, progress |-> "uploading", error |-> Null]
                  /\ inflight' = inflight \cup
                       {[id |-> NewCall, file |-> audioState.file,
                         mode |-> selectedMode, stage |-> "encode", prompt |-> <<>>]}
                  /\ failed' = NoCall
  /\ UNCHANGED <<GEMINI_API_KEY, input, audioState, srtContent, selectedMode, objectURLs, recVars>>

\* geminiService.ts:10-14 and 35-90: the FileReader's loadend after a successful
\* read resolves the encoding, the prompt is composed and the request is sent
readerLoadEnd(call) ==
  /\ call \in inflight
  /\ call.stage = "encode"
  /\ inflight' = (inflight \ {call}) \cup
                   {[call EXCEPT !.stage = "invoke", !.prompt = promptText(call.mode)]}
  /\ UNCHANGED <<GEMINI_API_KEY, input, audioState, srtContent, processingState, selectedMode,
                 objectURLs, failed, recVars, ops>>

\* geminiService.ts:10-14: loadend after a failed read finds reader.result
\* null, split throws inside the event handler and the promise of line 8 is
\* never settled: the call waits for ever
readerLoadEndFailed(call) ==
  /\ call \in inflight
  /\ call.stage = "encode"
  /\ inflight' = (inflight \ {call}) \cup {[call EXCEPT !.stage = "hung"]}
  /\ UNCHANGED <<GEMINI_API_KEY, input, audioState, srtContent, processingState, selectedMode,
                 objectURLs, failed, recVars, ops>>

\* geminiService.ts:92-125 and App.tsx:49-61: generateContent settles, the
\* rest of generateSubtitles runs and handleProcess resumes after its await
generateContentSettled(call, response) ==
  /\ call \in inflight
  /\ call.stage = "invoke"
  /\ inflight' = inflight \ {call}
  /\ LET result == AfterGenerateContent(response)
     IN  IF result.ok
         THEN /\ srtContent' = [text |-> result.value,
                                file |-> IF result.value = <<>> THEN 0 ELSE call.file]
              /\ processingState' =
                   [isProcessing |-> FALSE, progress |-> "done", error |-> Null]
              /\ failed' = NoCall
         ELSE /\ processingState' =
                   [isProcessing |-> FALSE, progress |-> "", error |-> ErrorText(result.error)]
              /\ failed' = [file |-> call.file, mode |-> call.mode]
              /\ UNCHANGED srtContent
  /\ UNCHANGED <<GEMINI_API_KEY, input, audioState, selectedMode, objectURLs, recVars, ops>>

\* ------------------------------------------------------------ Audio Capture
\* AudioInput:152-154, the record button: getUserMedia is asked for a stream
startRecording ==
  /\ UploadShown
  /\ ops < MaxOps
  /\ ops' = ops + 1
  /\ pendingMedia' = pendingMedia \cup {NewStart}
  /\ UNCHANGED <<ctlVars, isRecording, mediaRecorderRef, chunksRef, timerIntervalRef,
                 intervals, streams, recorders, alerted>>

\* a start that raises the recording flag before the stream is there
getUserMediaRejected_FlagSet(c) ==
  /\ c \in pendingMedia
  /\ pendingMedia' = pendingMedia \ {c}
  /\ alerted' = TRUE
  /\ isRecording' = TRUE
  /\ UNCHANGED <<ctlVars, mediaRecorderRef, chunksRef, timerIntervalRef,
                 intervals, streams, recorders, ops>>

\* AudioInput:180-183: getUserMedia rejects (permission denied, no device);
\* the catch logs and alerts
getUserMediaRejected(c) ==
  /\ c \in pendingMedia
  /\ pendingMedia' = pendingMedia \ {c}
  /\ alerted' = TRUE
  /\ UNCHANGED <<ctlVars, isRecording, mediaRecorderRef, chunksRef, timerIntervalRef,
                 intervals, streams, recorders, ops>>

\* how the session setup of lines 155-178 can end once the stream is there
Setups == {"ok", "constructorThrows", "startThrows"}

\* mediaRecorderRef.current = r: an inactive recorder nothing refers to any
\* more is garbage
referTo(all, r) ==
  [c \in 1..MaxOps |->
     IF c = r THEN all[c]
     ELSE IF all[c] = "inactive" THEN "none" ELSE all[c]]

\* AudioInput:154-183: getUserMedia resolves with the stream of call c and the
\* rest of startRecording runs.  The recorder and the interval made by call c
\* are recorder c and interval c.  new MediaRecorder(stream) or
\* mediaRecorder.start() may throw (NotSupportedError, SecurityError); the
\* catch logs and alerts and does nothing else.
getUserMediaResolved(c, setup) ==
  /\ c \in pendingMedia
  /\ pendingMedia' = pendingMedia \ {c}
  /\ streams' = streams \cup {c}
  /\ IF setup = "constructorThrows"
     THEN UNCHANGED <<mediaRecorderRef, chunksRef, recorders>>
     ELSE /\ mediaRecorderRef' = c
          /\ chunksRef' = <<>>
          /\ recorders' = referTo([recorders EXCEPT
                             ![c] = IF setup = "ok" THEN "recording" ELSE "inactive"], c)
  /\ IF setup = "ok"
     THEN /\ isRecording' = TRUE
          /\ intervals' = intervals \cup {c}
          /\ timerIntervalRef' = c
     ELSE UNCHANGED <<isRecording, intervals, timerIntervalRef>>
  /\ alerted' = (alerted \/ setup # "ok")
  /\ UNCHANGED <<ctlVars, ops>>

\* the part of the AudioInput state that stopRecording reads and writes
RecorderState ==
  [isRecording |-> isRecording, mediaRecorderRef |-> mediaRecorderRef,
   timerIntervalRef |-> timerIntervalRef, intervals |-> intervals,
   recorders |-> recorders]

\* MediaRecorder.stop(): a recording recorder queues its dataavailable and stop
\* events; an inactive one is left alone
recorderStop(all, r) ==
  IF all[r] = "recording" THEN [all EXCEPT ![r] = "stopping"] ELSE all

\* a stop handler that flips the recording flag and does not test it
stopRecording_Toggle(s) ==
  IF s.mediaRecorderRef # 0
  THEN [isRecording      |-> ~s.isRecording,
        mediaRecorderRef |-> s.mediaRecorderRef,
        timerIntervalRef |-> 0,
        intervals        |-> IF s.timerIntervalRef # 0
                             THEN s.intervals \ {s.timerIntervalRef} ELSE s.intervals,
        recorders        |-> recorderStop(s.recorders, s.mediaRecorderRef)]
  ELSE s

\* AudioInput:186-195, as a function of the state it is called in
stopRecording(s) ==
  IF s.mediaRecorderRef # 0 /\ s.isRecording
  THEN [isRecording      |-> FALSE,
        mediaRecorderRef |-> s.mediaRecorderRef,
        timerIntervalRef |-> 0,
        intervals        |-> IF s.timerIntervalRef # 0
                             THEN s.intervals \ {s.timerIntervalRef} ELSE s.intervals,
        recorders        |-> recorderStop(s.recorders, s.mediaRecorderRef)]
  ELSE s

\* AudioInput:247, the stop button
stopRecordingClicked ==
  /\ RecordingShown
  /\ LET after == stopRecording(RecorderState)
     IN  /\ isRecording' = after.isRecording
         /\ mediaRecorderRef' = after.mediaRecorderRef
         /\ timerIntervalRef' = after.timerIntervalRef
         /\ intervals' = after.intervals
         /\ recorders' = after.recorders
  /\ UNCHANGED <<ctlVars, chunksRef, pendingMedia, streams, alerted, ops>>

\* AudioInput:159-170: the task queued by MediaRecorder.stop() fires
\* dataavailable with what was recorded (hasData: e.data.size > 0) and then
\* stop; the chunk of recorder r is written r
recorderStopped(r, hasData) ==
  /\ r \in 1..MaxOps
  /\ recorders[r] = "stopping"
  /\ recorders' = [recorders EXCEPT
                     ![r] = IF r = mediaRecorderRef THEN "inactive" ELSE "none"]
  /\ chunksRef' = IF hasData THEN Append(chunksRef, r) ELSE chunksRef
  /\ handleAudioSelected("recording")
  /\ streams' = streams \ {r}
  /\ UNCHANGED <<GEMINI_API_KEY, input, selectedMode, inflight, isRecording, mediaRecorderRef,
                 timerIntervalRef, intervals, pendingMedia, alerted, ops>>

\* ------------------------------------------------------------ specification
Next ==
  \/ handleFileChange
  \/ clearAudio
  \/ \E mode \in ModesTried : setSelectedMode(mode)
  \/ clearResult
  \/ handleProcess
  \/ \E call \in inflight : readerLoadEnd(call)
  \/ \E call \in inflight : readerLoadEndFailed(call)
  \/ \E call \in inflight : \E response \in ModelResponses :
       generateContentSettled(call, response)
  \/ startRecording
  \/ \E c \in pendingMedia : getUserMediaRejected(c)
  \/ \E c \in pendingMedia : \E setup \in Setups : getUserMediaResolved(c, setup)
  \/ stopRecordingClicked
  \/ \E r \in 1..MaxOps : \E hasData \in BOOLEAN : recorderStopped(r, hasData)

Spec == Init /\ [][Next]_vars

\* ------------------------------------------- one invocation, every response
\* The specifications below follow the first generateSubtitles call and let
\* generateContent settle with every text (or error message) of up to
\* MaxPieces pieces.
MaxPieces == 5

\* HH:MM:SS
Timestamp == <<"0", "0", ":", "0", "0", ":", "0", "0">>

\* pieces of a response around the subtitle anchor
RepairPieces == {<<"a">>, <<"1">>, <<" ">>, <<"\n">>, <<"\n">> \o Timestamp}
\* pieces of a response around the markdown fences
FencePieces  == {<<Backquote>>, Fence, Fence \o <<"s", "r", "t">>, <<"s", "r", "t">>, <<" ">>}
\* words of an error message
MessageWords == {MarkApiKey, MarkSafety, Mark429, <<"fetch failed">>}

RECURSIVE Flatten(_)
\* the text made of the pieces
Flatten(pieces) ==
  IF pieces = <<>> THEN <<>> ELSE Head(pieces) \o Flatten(Tail(pieces))

\* geminiService.ts:81-90: while the request is outstanding the service
\* produces one more piece of what the call will settle with
responsePiece(piece) ==
  /\ \E call \in inflight : call.stage = "invoke"
  /\ Len(input) < MaxPieces
  /\ input' = Append(input, piece)
  /\ UNCHANGED <<GEMINI_API_KEY, audioState, srtContent, processingState, selectedMode,
                 inflight, objectURLs, failed, recVars, ops>>

\* generateContent resolves and response.text is the text produced
responseArrives ==
  \E call \in inflight : generateContentSettled(call, Resolved(Flatten(input)))

\* generateContent rejects with an error whose message is the words produced;
\* an error thrown without a message has message undefined
requestFails ==
  \E call \in inflight :
    \E message \in {Flatten(input)} \cup (IF input = <<>> THEN {Undefined} ELSE {}) :
      generateContentSettled(call, Rejected(message))

\* the steps from the page load to the first request sent
FirstInvocation ==
  \/ handleFileChange
  \/ handleProcess /\ input = <<>>
  \/ \E call \in inflight : readerLoadEnd(call)

NextRepair ==
  \/ FirstInvocation
  \/ \E piece \in RepairPieces : responsePiece(piece)
  \/ responseArrives

SpecRepair == Init /\ [][NextRepair]_vars

NextFence ==
  \/ FirstInvocation
  \/ \E piece \in FencePieces : responsePiece(piece)
  \/ responseArrives

SpecFence == Init /\ [][NextFence]_vars

NextCatch ==
  \/ FirstInvocation
  \/ \E word \in MessageWords : responsePiece(word)
  \/ requestFails

SpecCatch == Init /\ [][NextCatch]_vars

\* the controller alone, with every mode of the selector
NextPrompt ==
  \/ handleFileChange
  \/ clearAudio
  \/ \E mode \in TranslationMode : setSelectedMode(mode)
  \/ clearResult
  \/ handleProcess
  \/ \E call \in inflight : readerLoadEnd(call)
  \/ \E call \in inflight : \E response \in ModelResponses :
       generateContentSettled(call, response)

SpecPrompt == Init /\ [][NextPrompt]_vars

\* the FileReader of an outstanding call fires loadend, after a successful or
\* a failed read
readerFires ==
  \E call \in inflight : readerLoadEnd(call) \/ readerLoadEndFailed(call)

\* the generateContent request of an outstanding call settles
requestSettles ==
  \E call \in inflight : \E response \in ModelResponses :
    generateContentSettled(call, response)

\* the controller alone, with the reads that fail
NextInvocation ==
  \/ handleFileChange
  \/ clearAudio
  \/ \E mode \in ModesTried : setSelectedMode(mode)
  \/ clearResult
  \/ handleProcess
  \/ readerFires
  \/ requestSettles

\* The event loop runs every task that is queued: a FileReader that was
\* started fires loadend, and a request that was sent returns or fails.  The
\* user is never obliged to click.
SpecLive ==
  /\ Init
  /\ [][NextInvocation]_vars
  /\ WF_vars(readerFires)
  /\ WF_vars(requestSettles)

\* ------------------------------------------------------------------ claims
\* the step is a run of handleProcess that calls generateSubtitles
CallsGenerateSubtitles ==
  ops' = ops + 1 /\ audioState' = audioState /\ pendingMedia' = pendingMedia

\* C1: clearing the source while a call is in flight leaves the controller
\* Idle (no document, no error, not processing), and while no source is
\* active an arriving response sets neither a document nor an error.
C1_ClearedResponseDiscarded ==
  [][ /\ (audioState.file # 0 /\ audioState'.file = 0)
           => (srtContent' = NoSrt /\ processingState' = NotProcessing)
      /\ (audioState.file = 0 /\ audioState'.file = 0)
           => UNCHANGED <<srtContent, processingState>> ]_vars

\* C2: a held document was generated from the source that is active now.
C2_DocumentOfActiveSource ==
  srtContent.text # <<>> => srtContent.file = audioState.file

\* C3: at most one generateSubtitles call is outstanding.
C3_OneInvocationInFlight == Cardinality(inflight) <= 1

\* C4: without a credential no call ever reaches the encode step or the
\* transport, no document is set, and the only error shown is the
\* configuration error.
C4_NoRequestWithoutCredential ==
  GEMINI_API_KEY = "" =>
    /\ inflight = {}
    /\ srtContent = NoSrt
    /\ processingState.error \in {Null, MsgNoApiKey}

C4_Witness ==
  GEMINI_API_KEY = "" /\ processingState.error = MsgNoApiKey /\ ops > 0

\* C5: an empty or absent text result makes generateSubtitles reject with the
\* empty-response error, and the step that delivers that error to the
\* controller ends the invocation with the message set, not processing, and
\* the document untouched.
C5_EmptyResponseFails ==
  [][ /\ \A text \in {Undefined, <<>>} :
           AfterGenerateContent(Resolved(text)) = Rejected(MsgEmptyResponse)
      /\ ((\E call \in inflight : call.stage = "invoke" /\ call \notin inflight')
            /\ processingState'.error = MsgEmptyResponse)
           => /\ ~processingState'.isProcessing
              /\ srtContent' = srtContent
              /\ failed'.file # 0 ]_vars

C5_Witness ==
  processingState.error = MsgEmptyResponse /\ ~processingState.isProcessing

\* C6: a retry (handleProcess run while an error is shown) calls
\* generateSubtitles with the source and the mode of the call that failed.
C6_RetrySameRequest ==
  [][ (ErrorShown /\ CallsGenerateSubtitles)
        => /\ audioState.file = failed.file
           /\ selectedMode = failed.mode
           /\ \A call \in inflight' \ inflight :
                call.file = failed.file /\ call.mode = failed.mode ]_vars

\* C7: the controller never receives the raw TypeError of the catch block,
\* and no failure of the encode step is left unraised.
C7_EveryFailureClassified ==
  /\ processingState.error # MsgTypeError
  /\ \A call \in inflight : call.stage # "hung"

\* C8: at most one microphone stream is held.
C8_OneStreamHeld == Cardinality(streams) <= 1

\* C9: once nothing is recording, no start is pending and no stop event is
\* queued, every acquired stream has been released.
C9_StreamsReleased ==
  (/\ ~isRecording
   /\ pendingMedia = {}
   /\ \A c \in 1..MaxOps : recorders[c] # "stopping")
    => streams = {}

\* C10: stop after stop changes nothing: the state stopRecording leaves is a
\* fixed point of stopRecording (flag, recorder reference, recorder states and
\* so the queued stop events, timer).
C10_SecondStopNoEffect ==
  stopRecording(stopRecording(RecorderState)) = stopRecording(RecorderState)

C10_Witness ==
  /\ ~isRecording
  /\ mediaRecorderRef # 0
  /\ recorders[mediaRecorderRef] = "stopping"
  /\ timerIntervalRef = 0

\* C11: the object URLs that are live are at most the URL of the active
\* source: none while no source is active, and none left over from a source
\* that was replaced or cleared.
C11_OnlyActiveUrlLive == objectURLs \subseteq ({audioState.url} \ {0})

\* the step runs the stop handler of recorder r (AudioInput:165-170)
StopHandlerRuns(r) == recorders[r] = "stopping" /\ recorders'[r] # "stopping"

\* C12: the blob the stop handler of a recorder builds (the chunk list as the
\* handler finds it) holds the non-empty chunk of that recorder and nothing
\* else: no chunk of another session, none twice.
C12_BlobIsSessionChunks ==
  [][ \A r \in 1..MaxOps :
        StopHandlerRuns(r) => chunksRef' \in {<<>>, <<r>>} ]_vars

\* C20: of "a call is in progress", "an error is set" and "a non-empty
\* document is held" at most one is true.
C20_AtMostOneOutcome ==
  /\ ~(processingState.isProcessing /\ processingState.error # Null)
  /\ ~(processingState.isProcessing /\ srtContent.text # <<>>)
  /\ ~(processingState.error # Null /\ srtContent.text # <<>>)

\* C13: the step in which a start request is refused (it leaves the pending
\* set and no stream was acquired for it) creates no session: the recording
\* flag, the stored recorder, the timer and its intervals, the streams held,
\* the recorders and the chunk list are as before, no recorder exists for the
\* request, and the user has been alerted.
C13_RefusedStartNoSession ==
  [][ \A c \in 1..MaxOps :
        (c \in pendingMedia /\ c \notin pendingMedia' /\ c \notin streams')
          => /\ alerted'
             /\ recorders'[c] = "none"
             /\ UNCHANGED <<isRecording, mediaRecorderRef, timerIntervalRef, intervals,
                            streams, recorders, chunksRef>> ]_vars

C13_Witness ==
  /\ ops = 1
  /\ alerted
  /\ pendingMedia = {}
  /\ ~isRecording
  /\ mediaRecorderRef = 0
  /\ timerIntervalRef = 0
  /\ intervals = {}
  /\ streams = {}

\* the step settles the outstanding generateContent call
ResponseSettles ==
  \E call \in inflight : call.stage = "invoke" /\ call \notin inflight'

\* digits, newline, HH:MM:SS at position i, nothing between the digits and
\* the newline
DigitsNewlineTimeAt(text, i) ==
  \E j \in (i + 1)..Len(text) :
    /\ \A d \in i..(j - 1) : text[d] \in Digits
    /\ text[j] = "\n"
    /\ TimestampAt(text, j + 1)

\* C14 as stated: when the normalized text does not begin with a digit and
\* holds "digits, newline, HH:MM:SS", the document is the suffix from the
\* first such substring and begins with a digit.
C14_SuffixFromFirstDigitsNewlineTime ==
  [][ ResponseSettles =>
        LET t == CleanText(Flatten(input))
        IN  \A i \in 1..Len(t) :
              (/\ ~StartsWithDigit(t)
               /\ DigitsNewlineTimeAt(t, i)
               /\ \A k \in 1..(i - 1) : ~DigitsNewlineTimeAt(t, k))
                => /\ srtContent'.text = Slice(t, i, Len(t))
                   /\ StartsWithDigit(srtContent'.text) ]_vars

\* C14 amended: when the normalized text does not begin with a digit and
\* holds "digits, optional whitespace, newline, HH:MM:SS", the document is
\* the suffix from the first such substring and begins with a digit.
C14_SuffixFromFirstAnchor ==
  [][ ResponseSettles =>
        LET t == CleanText(Flatten(input))
        IN  \A i \in 1..Len(t) :
              (/\ ~StartsWithDigit(t)
               /\ AnchorAt(t, i)
               /\ \A k \in 1..(i - 1) : ~AnchorAt(t, k))
                => /\ srtContent'.text = Slice(t, i, Len(t))
                   /\ StartsWithDigit(srtContent'.text) ]_vars

C14_Witness ==
  LET t == CleanText(Flatten(input))
  IN  /\ inflight = {}
      /\ ~StartsWithDigit(t)
      /\ \E i \in 2..Len(t) : AnchorAt(t, i) /\ ~DigitsNewlineTimeAt(t, i)
      /\ srtContent.text # <<>>
      /\ srtContent.text # t
      /\ srtContent.file = audioState.file

\* C15: when the normalized text begins with a digit the call succeeds and
\* the document is exactly the normalized text.
C15_DigitStartUntouched ==
  [][ ResponseSettles =>
        LET t == CleanText(Flatten(input))
        IN  StartsWithDigit(t)
              => /\ srtContent'.text = t
                 /\ processingState'.error = Null ]_vars

C15_Witness ==
  LET t == CleanText(Flatten(input))
  IN  /\ inflight = {}
      /\ StartsWithDigit(t)
      /\ \E i \in 2..Len(t) : AnchorAt(t, i) /\ ~AnchorAt(t, 1)
      /\ srtContent.text = t
      /\ srtContent.file = audioState.file

\* C16: when the response is not empty and its normalized text neither
\* begins with a digit nor holds the anchor, the call returns the normalized
\* text as it is and the invocation ends Done (a document is shown, no error,
\* not processing).
C16_AnchorlessPassesThrough ==
  [][ ResponseSettles =>
        LET t == CleanText(Flatten(input))
        IN  (/\ Flatten(input) # <<>>
             /\ ~StartsWithDigit(t)
             /\ \A i \in 1..Len(t) : ~AnchorAt(t, i))
              => /\ srtContent'.text = t
                 /\ processingState'.error = Null
                 /\ ~processingState'.isProcessing
                 /\ srtContent'.text # <<>> ]_vars

\* C17: stripping the fences of a stripped text changes nothing, with or
\* without the trim, also when a removal joins backquotes into a new marker.
C17_StripIdempotent ==
  LET t == Flatten(input)
  IN  /\ StripFences(StripFences(t)) = StripFences(t)
      /\ CleanText(CleanText(t)) = CleanText(t)

\* two backquotes, a tagged fence, a backquote and the tag: removing the
\* tagged fence leaves a new tagged fence, which the second replace reduces
\* to the tag
C17_Witness ==
  /\ input = << <<Backquote>>, <<Backquote>>, Fence \o <<"s", "r", "t">>,
                <<Backquote>>, <<"s", "r", "t">> >>
  /\ StripFenceSrtFrom(Flatten(input), 1) = Fence \o <<"s", "r", "t">>
  /\ inflight = {}
  /\ srtContent.text = <<"s", "r", "t">>

\* C18: the instruction sent for a mode is the common block, a line break
\* and the clause of that mode and of no other mode; it holds the worked
\* example if and only if the mode is the bilingual one.  This holds of the
\* prompt composed for each of the four modes and of the prompt of every
\* request that was sent.
C18_PromptOfMode ==
  /\ \A mode \in TranslationMode :
       LET prompt == promptText(mode)
           rest   == Slice(prompt, Len(commonRequirements) + 2, Len(prompt))
       IN  /\ Slice(prompt, 1, Len(commonRequirements) + 1) = commonRequirements \o <<"\n">>
           /\ \A other \in TranslationMode :
                Cardinality({i \in 1..Len(rest) : rest[i] = ModeClause(other)})
                  = IF other = mode THEN 1 ELSE 0
           /\ Includes(prompt, WorkedExample) <=> mode = BILINGUAL_CN_EN
  /\ \A call \in inflight :
       call.stage = "invoke" => call.prompt = promptText(call.mode)

C18_Witness ==
  \E call \in inflight :
    /\ call.stage = "invoke"
    /\ call.mode = TO_CHINESE
    /\ call.prompt = commonRequirements \o <<"\n", ModeClause(TO_CHINESE)>>

\* the outcome the claim gives a failure with this message
ClaimedOutcome(message) ==
  IF Includes(message, MarkSafety) THEN MsgSafety
  ELSE IF Includes(message, Mark429) THEN MsgQuota
  ELSE message

\* C19: whatever generateContent rejects with, the controller is given the
\* safety message when the message holds the safety marker, else the
\* rate-limit message when it holds 429, else the message itself (the
\* fallback text when there is none).
C19_FailureClassified ==
  [][ ResponseSettles =>
        processingState'.error =
          ErrorText([message |-> ClaimedOutcome(Flatten(input))]) ]_vars

\* C21: whenever the controller is Processing it later is not: the call ends
\* Done or Failed, or the source is cleared; a failed read of the audio does
\* not keep it Processing for ever.
C21_ProcessingEnds ==
  processingState.isProcessing ~> ~processingState.isProcessing

====
